---- MODULE Spec2Model ----
(***************************************************************************)
(* Model of jumpstamper.py: the timeline arithmetic of StamperArgs, the    *)
(* parameter bundles of StamperProfiles, the pipeline assembly of          *)
(* processJumps and the batch parsing of jumpsFromXlsx.                    *)
(*                                                                         *)
(* Python floats are modelled as exact rationals <<n, d>> in lowest terms  *)
(* with d > 0, so that multiplication, division and rounding are computed  *)
(* rather than assumed.  Python's None is the string "None" inside ffmpeg  *)
(* keyword bundles and the empty tuple in raw argument dicts (a present    *)
(* value v is <<v>>).                                                      *)
(***************************************************************************)
EXTENDS Integers, Sequences, FiniteSets, TLC

VARIABLES pc, jumpsToProcess, cleaned_jumps, job_idx, runs, error, ws, conv

vars == <<pc, jumpsToProcess, cleaned_jumps, job_idx, runs, error, ws, conv>>

(***************************************************************************)
(* Bounds of the explored inputs.                                          *)
(***************************************************************************)
MaxTimeNum == 2
MaxTimeDen == 2
MaxExitFrame == 2
MaxConvNum == 5
MaxConvDen == 4
MaxCols == 3
MaxRows == 2
MaxBatchRows == 2

(***************************************************************************)
(* Float arithmetic, as exact rationals.                                   *)
(***************************************************************************)
Abs(x) == IF x < 0 THEN -x ELSE x

RECURSIVE GCD(_, _)
GCD(a, b) == IF b = 0 THEN a ELSE GCD(b, a % b)

Rat(n, d) ==
    LET s == IF d < 0 THEN -1 ELSE 1
        g == GCD(Abs(n), Abs(d))
    IN  <<(s * n) \div g, (s * d) \div g>>

FromInt(i) == <<i, 1>>

RMul(x, y) ==
    LET g1 == GCD(Abs(x[1]), Abs(y[2]))
        g2 == GCD(Abs(y[1]), Abs(x[2]))
    IN  Rat((x[1] \div g1) * (y[1] \div g2), (x[2] \div g2) * (y[2] \div g1))

RDiv(x, y) == Rat(x[1] * y[2], x[2] * y[1])

RAdd(x, y) == Rat(x[1] * y[2] + y[1] * x[2], x[2] * y[2])

RSub(x, y) == Rat(x[1] * y[2] - y[1] * x[2], x[2] * y[2])

RLess(x, y) == x[1] * y[2] < y[1] * x[2]

RLeq(x, y) == x[1] * y[2] <= y[1] * x[2]

RAbs(x) == <<Abs(x[1]), x[2]>>

(* Python 3 round(x) with one argument: nearest integer, a tie going to    *)
(* the even neighbour.                                                     *)
PyRound_half_up(x) ==
    LET q == x[1] \div x[2]
        r == x[1] - q * x[2]
    IN  IF 2 * r < x[2] THEN q ELSE q + 1

PyRound(x) ==
    LET q == x[1] \div x[2]
        r == x[1] - q * x[2]
    IN  IF 2 * r < x[2] THEN q
        ELSE IF 2 * r > x[2] THEN q + 1
        ELSE IF q % 2 = 0 THEN q ELSE q + 1

(***************************************************************************)
(* getFrameRate: the probed r_frame_rate split at '/', each part a number. *)
(***************************************************************************)
getFrameRate(rate) ==
    IF Len(rate) = 1 THEN FromInt(rate[1])
    ELSE IF Len(rate) = 2 THEN RDiv(FromInt(rate[1]), FromInt(rate[2]))
    ELSE FromInt(-1)

numFrames_truncating(framerate, seconds) ==
    LET x == RMul(seconds, framerate)
        q == Abs(x[1]) \div x[2]
    IN  IF x[1] < 0 THEN -q ELSE q

(***************************************************************************)
(* StamperArgs.numFrames and StamperArgs.numSecs.                          *)
(***************************************************************************)
numFrames(framerate, seconds) == PyRound(RMul(seconds, framerate))

numSecs_multiplying(framerate, frames) == RMul(FromInt(frames), framerate)

numSecs(framerate, frames) == RDiv(FromInt(frames), framerate)

(***************************************************************************)
(* The media files of the run and what ffmpeg.probe reports for each: the  *)
(* first video stream's r_frame_rate (already split at '/'), height and    *)
(* width, or a failure.                                                    *)
(***************************************************************************)
VideoStream(rate, w, h) ==
    [status |-> "ok", r_frame_rate |-> rate, width |-> w, height |-> h]

Probe(infile) ==
    CASE infile = "jump30.mp4" -> VideoStream(<<30>>, 1920, 1080)
      [] infile = "jump25.mp4" -> VideoStream(<<25>>, 1280, 720)
      [] infile = "ntsc.mp4"   -> VideoStream(<<30000, 1001>>, 1920, 1080)
      [] infile = "slow.mp4"   -> VideoStream(<<1>>, 640, 480)
      [] infile = "odd.mp4"    -> VideoStream(<<30, 1, 1>>, 640, 480)
      [] infile = "zero.mp4"   -> VideoStream(<<0, 1>>, 640, 480)
      [] infile = "nan.mp4"    -> VideoStream(<<0, 0>>, 640, 480)
      [] infile = "audio.mp3"  -> [status |-> "no_video"]
      [] OTHER                 -> [status |-> "probe_error"]

(* getVideoMetadata: the video stream, or sys.exit(1).                     *)
getVideoMetadata(infile) == Probe(infile)

(* float(rate[0])/float(rate[1]) raises ZeroDivisionError on a zero        *)
(* denominator.                                                            *)
getFrameRateRaises(rate) == Len(rate) = 2 /\ rate[2] = 0

(***************************************************************************)
(* StamperArgs: the dataclass fields with their defaults, then             *)
(* __post_init__ and sanity.                                               *)
(***************************************************************************)
ArgNames ==
    {"input_file", "output_file", "stamp", "slate_time", "leadin_time",
     "working_time", "jump_time", "exit_frame", "slate_frame", "freeze_time",
     "overlay_prof", "encoder_prof", "annotation", "excel_sheet"}

Field(d, k, default) == IF k \in DOMAIN d THEN d[k] ELSE default

StamperArgsFields(d) ==
    [input_file   |-> Field(d, "input_file", ""),
     output_file  |-> Field(d, "output_file", ""),
     stamp        |-> Field(d, "stamp", FALSE),
     slate_time   |-> Field(d, "slate_time", FromInt(0)),
     freeze_time  |-> Field(d, "freeze_time", FromInt(0)),
     leadin_time  |-> Field(d, "leadin_time", FromInt(0)),
     working_time |-> Field(d, "working_time", FromInt(0)),
     jump_time    |-> Field(d, "jump_time", FromInt(60)),
     slate_frame  |-> Field(d, "slate_frame", 0),
     exit_frame   |-> Field(d, "exit_frame", 0),
     overlay_prof |-> Field(d, "overlay_prof", "default"),
     encoder_prof |-> Field(d, "encoder_prof", "default"),
     annotation   |-> Field(d, "annotation", ""),
     excel_sheet  |-> Field(d, "excel_sheet", "None")]

DurationNames == {"slate", "leadin", "working", "freeze", "jump", "total"}

sanity_keeping_seconds(a) ==
    IF a.framenum.leadin < 0
    THEN [a EXCEPT !.framenum.leadin = 0]
    ELSE a

sanity(a) ==
    IF a.framenum.leadin < 0
    THEN [a EXCEPT !.framenum.leadin = 0,
                   !.secs.leadin = numSecs(a.framerate, a.framenum.exit)]
    ELSE a

(* numSecs divides by the frame rate: ZeroDivisionError when it is 0.      *)
sanityRaises(a) == a.framenum.leadin < 0 /\ a.framerate[1] = 0

post_init_fields_freeze_after_freeze_time(f, md) ==
    LET framerate == getFrameRate(md.r_frame_rate)
        secs == [slate   |-> f.slate_time,
                 leadin  |-> f.leadin_time,
                 working |-> f.working_time,
                 freeze  |-> f.freeze_time,
                 jump    |-> f.jump_time,
                 total   |-> RAdd(RAdd(RAdd(f.jump_time, f.freeze_time),
                                       f.leadin_time), f.slate_time)]
        framenum == [slate  |-> f.slate_frame,
                     leadin |-> f.exit_frame - numFrames(framerate, f.leadin_time),
                     exit   |-> f.exit_frame,
                     freeze |-> f.exit_frame + numFrames(framerate, f.freeze_time),
                     end    |-> f.exit_frame + numFrames(framerate, f.jump_time)]
        frames == [k \in DurationNames |-> numFrames(framerate, secs[k])]
    IN  f @@ [vid_metadata |-> md, framerate |-> framerate,
              secs |-> secs, framenum |-> framenum, frames |-> frames]

post_init_fields(f, md) ==
    LET framerate == getFrameRate(md.r_frame_rate)
        secs == [slate   |-> f.slate_time,
                 leadin  |-> f.leadin_time,
                 working |-> f.working_time,
                 freeze  |-> f.freeze_time,
                 jump    |-> f.jump_time,
                 total   |-> RAdd(RAdd(RAdd(f.jump_time, f.freeze_time),
                                       f.leadin_time), f.slate_time)]
        framenum == [slate  |-> f.slate_frame,
                     leadin |-> f.exit_frame - numFrames(framerate, f.leadin_time),
                     exit   |-> f.exit_frame,
                     freeze |-> f.exit_frame + numFrames(framerate, f.working_time),
                     end    |-> f.exit_frame + numFrames(framerate, f.jump_time)]
        frames == [k \in DurationNames |-> numFrames(framerate, secs[k])]
    IN  f @@ [vid_metadata |-> md, framerate |-> framerate,
              secs |-> secs, framenum |-> framenum, frames |-> frames]

(* The outcome of constructing StamperArgs from the cleaned dict d: the    *)
(* constructed object, or the exception that ends the process.             *)
StamperArgs(d) ==
    LET f  == StamperArgsFields(d)
        md == getVideoMetadata(f.input_file)
    IN  IF md.status # "ok" THEN [status |-> "SystemExit"]
        ELSE IF getFrameRateRaises(md.r_frame_rate)
             THEN [status |-> "ZeroDivisionError"]
        ELSE LET a == post_init_fields(f, md)
             IN  IF sanityRaises(a) THEN [status |-> "ZeroDivisionError"]
                 ELSE [status |-> "ok", obj |-> sanity(a)]

(***************************************************************************)
(* StamperProfiles.__post_init__: the keyword bundles of one job.  A       *)
(* bundle is a function from option names to values; where one option      *)
(* holds an int in one profile and a string in another, the value carries  *)
(* its Python type.  A text is the sequence of its pieces, '' being <<>>.  *)
(***************************************************************************)
PyInt(i) == <<"int", i>>

PyStr(t) == <<"str", t>>

Text(t) == IF t = "" THEN <<>> ELSE <<t>>

KnownEncoderProfs ==
    {"1080_30", "quick", "x265_high", "qsv_h264", "qsv_hevc", "null"}

defaultOutput == ("c:v" :> "libx264") @@ ("b:v" :> "10M") @@ ("format" :> "mp4")

defaultInput ==
    [hide_banner |-> "None", benchmark |-> "None", an |-> "None", y |-> "None"]

encoderOutput_else_null(encoder_prof) ==
    CASE encoder_prof = "default" -> defaultOutput
      [] encoder_prof = "1080_30" -> defaultOutput
      [] encoder_prof = "quick" ->
            ("crf" :> 30) @@ ("preset" :> "veryfast") @@ defaultOutput
      [] encoder_prof = "x265_high" ->
            ("c:v" :> "libx265") @@ ("preset" :> "slow") @@ ("b:v" :> "10M")
                @@ defaultOutput
      [] encoder_prof = "qsv_h264" ->
            ("c:v" :> "h264_qsv") @@ ("look_ahead" :> "1")
                @@ ("look_ahead_depth" :> "40") @@ ("b:v" :> "5M")
      [] encoder_prof = "qsv_hevc" ->
            ("c:v" :> "hevc_qsv") @@ ("preset" :> "4") @@ ("b:v" :> "10M")
      [] OTHER -> ("format" :> "null") @@ ("y" :> "None")

encoderOutput(encoder_prof) ==
    CASE encoder_prof = "quick" ->
            ("crf" :> 30) @@ ("preset" :> "veryfast") @@ defaultOutput
      [] encoder_prof = "x265_high" ->
            ("c:v" :> "libx265") @@ ("preset" :> "slow") @@ ("b:v" :> "10M")
                @@ defaultOutput
      [] encoder_prof = "qsv_h264" ->
            ("c:v" :> "h264_qsv") @@ ("look_ahead" :> "1")
                @@ ("look_ahead_depth" :> "40") @@ ("b:v" :> "5M")
      [] encoder_prof = "qsv_hevc" ->
            ("c:v" :> "hevc_qsv") @@ ("preset" :> "4") @@ ("b:v" :> "10M")
      [] encoder_prof = "null" -> ("format" :> "null") @@ ("y" :> "None")
      [] OTHER -> defaultOutput

encoderInput(encoder_prof) ==
    IF encoder_prof \in {"qsv_h264", "qsv_hevc"}
    THEN ("hwaccel" :> "qsv") @@ ("loglevel" :> "verbose") @@ defaultInput
    ELSE defaultInput

encoderScale(encoder_prof, vid_w, vid_h) ==
    CASE encoder_prof = "1080_30" ->
            [width |-> PyStr("-4"), height |-> PyStr("1080")]
      [] encoder_prof = "quick" ->
            [width |-> PyStr("-4"), height |-> PyStr("480")]
      [] OTHER -> [width |-> PyInt(vid_w), height |-> PyInt(vid_h)]

encoderFps(encoder_prof, framerate) ==
    IF encoder_prof = "1080_30" THEN [fps |-> FromInt(30)]
    ELSE [fps |-> framerate]

freeze_loop_raw_marker(args) ==
    [start |-> args.framenum.freeze,
     loop  |-> args.frames.freeze,
     size  |-> 1]

freeze_loop(args) ==
    [start |-> args.framenum.freeze - args.framenum.leadin + 1,
     loop  |-> args.frames.freeze,
     size  |-> 1]

jump_fade_uncorrected_leadin(args) ==
    LET fade_duration == 2
    IN  [type |-> "out",
         start_time |-> RSub(RAdd(RAdd(args.leadin_time, args.secs.jump),
                                  args.secs.freeze),
                             FromInt(fade_duration)),
         duration |-> fade_duration]

(* The fade at the end of the main segment.                                *)
jump_fade(args) ==
    LET fade_duration == 2
    IN  [type |-> "out",
         start_time |-> RSub(RAdd(RAdd(args.secs.leadin, args.secs.jump),
                                  args.secs.freeze),
                             FromInt(fade_duration)),
         duration |-> fade_duration]

StamperProfiles(args) ==
    LET vid_metadata == getVideoMetadata(args.input_file)
        framerate == getFrameRate(vid_metadata.r_frame_rate)
        vid_h == vid_metadata.height
        vid_w == vid_metadata.width
        common_dt ==
            [font |-> "Arial", rate |-> framerate, fontcolor |-> "yellow",
             fontsize |-> PyRound(Rat(vid_h, 12 * 8)) * 8,
             box |-> 1, boxcolor |-> "black@0.5", boxborderw |-> 2]
        annot_fontsize == PyRound(Rat(vid_h, 16 * 8)) * 8
    IN  [common_dt |-> common_dt,
         framectr_dt |->
            [y |-> RMul(FromInt(vid_h), Rat(9, 10)),
             x |-> RMul(FromInt(vid_w), Rat(2, 10)),
             text |-> Text("in: %{frame_num} @ %{pts}"),
             start_number |-> 0] @@ common_dt,
         slate_trim |->
            [start_frame |-> args.framenum.slate,
             end_frame   |-> args.framenum.slate + 1],
         jump_trim |->
            [start_frame |-> args.framenum.leadin,
             end_frame   |-> args.framenum.end],
         timer_dt |-> [y |-> 0, x |-> 0] @@ common_dt,
         annot_dt |->
            [fontsize |-> annot_fontsize,
             y |-> vid_h - annot_fontsize,
             x |-> 0,
             text |-> Text(args.annotation)] @@ common_dt,
         freeze_loop |-> freeze_loop(args),
         jump_fade |-> jump_fade(args),
         fps   |-> encoderFps(args.encoder_prof, framerate),
         scale |-> encoderScale(args.encoder_prof, vid_w, vid_h),
         input |-> encoderInput(args.encoder_prof),
         output |-> encoderOutput(args.encoder_prof)]

(***************************************************************************)
(* The filter graph.  A stage is the filter name with its keyword          *)
(* arguments; a segment is the sequence of stages chained from one input.  *)
(***************************************************************************)
Stage(op, kwargs) == [op |-> op, kwargs |-> kwargs]

InputStage(filename, kwargs) ==
    [op |-> "input", filename |-> filename, kwargs |-> kwargs]

CropStage ==
    Stage("crop", [width |-> "0.8*in_w", height |-> "ih", x |-> "0.1*in_w", y |-> 0])

SetptsStage == Stage("setpts", [expr |-> "N/FRAME_RATE/TB"])

(* makeStamped names framecounter_args, which nothing defines: the call    *)
(* raises NameError before a stream is returned.                           *)
makeStamped(args) == [status |-> "NameError"]

makeSlate_fade_above_two_seconds(args) ==
    LET settings == StamperProfiles(args)
        slate == <<InputStage(args.input_file, settings.input),
                   CropStage,
                   Stage("trim", [start_frame |-> args.framenum.slate,
                                  end_frame   |-> args.framenum.slate + 1]),
                   Stage("loop", [loop |-> args.frames.slate, size |-> 1, start |-> 1]),
                   SetptsStage>>
    IN  IF RLess(FromInt(2), args.secs.slate)
        THEN slate \o
             <<Stage("fade", [type |-> "in", start_time |-> FromInt(0),
                              duration |-> Rat(1, 2)]),
               Stage("fade", [type |-> "out",
                              start_time |-> RSub(args.secs.slate, Rat(1, 2)),
                              duration |-> Rat(1, 2)])>>
        ELSE slate

makeSlate(args) ==
    LET settings == StamperProfiles(args)
        slate_trim_args == [start_frame |-> args.framenum.slate,
                            end_frame   |-> args.framenum.slate + 1]
        slate == <<InputStage(args.input_file, settings.input),
                   CropStage,
                   Stage("trim", slate_trim_args),
                   Stage("loop", [loop |-> args.frames.slate, size |-> 1, start |-> 1]),
                   SetptsStage>>
        fade_dur == Rat(1, 2)
        fade_in_time == FromInt(0)
        fade_out_time == RSub(args.secs.slate, fade_dur)
    IN  IF RLeq(FromInt(2), args.secs.slate)
        THEN slate \o
             <<Stage("fade", [type |-> "in", start_time |-> fade_in_time,
                              duration |-> fade_dur]),
               Stage("fade", [type |-> "out", start_time |-> fade_out_time,
                              duration |-> fade_dur])>>
        ELSE slate

timerText_always_expression(args) ==
    <<"%{eif:(trunc(t-", args.secs.leadin, ")):d:2}.%{eif:abs((1M*(t-",
      args.secs.leadin, ")-1M*trunc(t-", args.secs.leadin, "))/10000):d:2}">>

timerText(args) ==
    IF args.working_time = FromInt(0)
    THEN Text("")
    ELSE <<"%{eif:(trunc(t-", args.secs.leadin, ")):d:2}.%{eif:abs((1M*(t-",
           args.secs.leadin, ")-1M*trunc(t-", args.secs.leadin, "))/10000):d:2}">>

makeMainJump_freeze_only_when_asked(args) ==
    LET settings == StamperProfiles(args)
        timer_dt == [text |-> timerText(args)] @@ settings.timer_dt
        head == <<InputStage(args.input_file, settings.input),
                  Stage("trim", settings.jump_trim),
                  SetptsStage,
                  CropStage,
                  Stage("drawtext", timer_dt),
                  Stage("drawtext", settings.annot_dt)>>
    IN  IF args.frames.freeze = 0
        THEN head \o <<Stage("fade", settings.jump_fade)>>
        ELSE head \o <<Stage("loop", settings.freeze_loop),
                       SetptsStage,
                       Stage("fade", settings.jump_fade)>>

makeMainJump(args) ==
    LET settings == StamperProfiles(args)
        timer_dt == [text |-> timerText(args)] @@ settings.timer_dt
    IN  <<InputStage(args.input_file, settings.input),
          Stage("trim", settings.jump_trim),
          SetptsStage,
          CropStage,
          Stage("drawtext", timer_dt),
          Stage("drawtext", settings.annot_dt),
          Stage("loop", settings.freeze_loop),
          SetptsStage,
          Stage("fade", settings.jump_fade)>>

joinAndPostFilters(args, to_concat) ==
    LET settings == StamperProfiles(args)
    IN  <<[op |-> "concat", inputs |-> to_concat, kwargs |-> [v |-> 1, a |-> 0]],
          Stage("scale", settings.scale),
          Stage("fps", settings.fps)>>

(* The branch of processJumps for a job that does not take the stamp path. *)
segmentsOf(cli_args) ==
    IF cli_args.slate_time = FromInt(0)
    THEN <<makeMainJump(cli_args)>>
    ELSE <<makeSlate(cli_args), makeMainJump(cli_args)>>

outputFileOf_as_given(cli_args) == cli_args.output_file

outputFileOf(cli_args) ==
    IF cli_args.encoder_prof = "null" THEN "/dev/null" ELSE cli_args.output_file

(* The graph handed to the engine for one job: the joined stream and the   *)
(* output stage.                                                           *)
pipelineOf(cli_args) ==
    LET filter_args == StamperProfiles(cli_args)
    IN  joinAndPostFilters(cli_args, segmentsOf(cli_args)) \o
        <<[op |-> "output", filename |-> outputFileOf(cli_args),
           kwargs |-> filter_args.output]>>

(***************************************************************************)
(* jumpsFromXlsx.  The active worksheet is its header row and its data     *)
(* rows, every row as wide as the header; an empty cell is <<>>.           *)
(***************************************************************************)
known_parser_args == ArgNames \cup {"help"}

LastColumn(header, k) ==
    CHOOSE c \in 1..Len(header) :
        /\ header[c] = k
        /\ \A c2 \in 1..Len(header) : header[c2] = k => c2 <= c

FirstColumn(header, k) ==
    CHOOSE c \in 1..Len(header) :
        /\ header[c] = k
        /\ \A c2 \in 1..Len(header) : header[c2] = k => c2 >= c

(* jump_args of one row: every known header name maps to that row's cell   *)
(* (the last one, should a name head two columns).                         *)
rowArgs_first_column(header, jumprow, known_args) ==
    [k \in {header[c] : c \in 1..Len(header)} \cap known_args |->
        jumprow[FirstColumn(header, k)]]

rowArgs(header, jumprow, known_args) ==
    [k \in {header[c] : c \in 1..Len(header)} \cap known_args |->
        jumprow[LastColumn(header, k)]]

(* all(jump_args[k] is not None for k in ['input_file', 'output_file'])    *)
(* looks the keys up in that order and stops at the first None: a key that *)
(* no column supplied raises KeyError.                                     *)
rowRaises(jump_args) ==
    \/ "input_file" \notin DOMAIN jump_args
    \/ /\ jump_args["input_file"] # <<>>
       /\ "output_file" \notin DOMAIN jump_args

rowKept_input_only(jump_args) == jump_args["input_file"] # <<>>

rowKept(jump_args) ==
    /\ jump_args["input_file"] # <<>>
    /\ jump_args["output_file"] # <<>>

RECURSIVE keptRows(_, _, _)
keptRows(header, rows, known_args) ==
    IF rows = <<>> THEN <<>>
    ELSE LET jump_args == rowArgs(header, Head(rows), known_args)
             rest == keptRows(header, Tail(rows), known_args)
         IN  IF rowKept(jump_args) THEN <<jump_args>> \o rest ELSE rest

(* The rows are visited in order, so the first raising row ends the call   *)
(* and nothing is returned.                                                *)
jumpsFromXlsx(sheet, known_args) ==
    IF \E r \in 1..Len(sheet.rows) :
           /\ rowRaises(rowArgs(sheet.header, sheet.rows[r], known_args))
    THEN [status |-> "KeyError"]
    ELSE [status |-> "ok",
          jumpArgs |-> keptRows(sheet.header, sheet.rows, known_args)]

(***************************************************************************)
(* The inputs explored: command lines, worksheets, conversion arguments.   *)
(***************************************************************************)
TimeVals == {Rat(k, d) : k \in -1..MaxTimeNum, d \in 1..MaxTimeDen}

SlateTimes == {t \in TimeVals : t[2] = 1}

FreezeTimes == {FromInt(0), Rat(3, 2)}

ExitFrames == -1..MaxExitFrame

EncoderProfs == KnownEncoderProfs \cup {"default", "bogus", "1080_60"}

(* vars(parser.parse_args()): every argument is a key, None when the flag  *)
(* was not given (False for the store_true flag).                          *)
CliArgs(given) ==
    [k \in ArgNames |->
        IF k \in DOMAIN given THEN <<given[k]>>
        ELSE IF k = "stamp" THEN <<FALSE>> ELSE <<>>]

TimelineJobs ==
    {CliArgs([input_file |-> f, output_file |-> "out.mp4", slate_time |-> st,
              leadin_time |-> lt, working_time |-> wt, freeze_time |-> ft,
              exit_frame |-> ef]) :
        f \in {"jump30.mp4", "jump25.mp4", "ntsc.mp4", "slow.mp4"},
        st \in SlateTimes, lt \in TimeVals, wt \in TimeVals,
        ft \in FreezeTimes, ef \in ExitFrames}

JumpJobs ==
    {CliArgs([input_file |-> f, output_file |-> "out.mp4", slate_time |-> st,
              leadin_time |-> lt, working_time |-> wt, freeze_time |-> ft,
              jump_time |-> jt, exit_frame |-> ef]) :
        f \in {"jump30.mp4", "jump25.mp4", "ntsc.mp4", "slow.mp4"},
        st \in {FromInt(0), Rat(1, 2), FromInt(2)},
        lt \in {FromInt(0), Rat(1, 2)}, wt \in {FromInt(0), FromInt(1)},
        ft \in FreezeTimes, jt \in TimeVals, ef \in ExitFrames}

EdgeJobs ==
    {CliArgs([input_file |-> f, output_file |-> "out.mp4",
              leadin_time |-> lt, working_time |-> wt, exit_frame |-> ef]) :
        f \in {"odd.mp4", "zero.mp4", "nan.mp4", "audio.mp3", "missing.mp4"},
        lt \in TimeVals, wt \in {FromInt(0), FromInt(1)}, ef \in ExitFrames}

ProfileJobs ==
    {CliArgs([input_file |-> f, output_file |-> "out.mp4", stamp |-> sp,
              slate_time |-> st, leadin_time |-> lt, working_time |-> FromInt(1),
              jump_time |-> FromInt(2), exit_frame |-> 1, slate_frame |-> 1,
              encoder_prof |-> enc, annotation |-> an]) :
        f \in {"jump30.mp4", "jump25.mp4"}, sp \in BOOLEAN,
        st \in {FromInt(0), FromInt(2)}, lt \in {FromInt(0), Rat(1, 2)},
        enc \in EncoderProfs, an \in {"", "Round 1"}}

ExampleJobs ==
    {CliArgs([input_file |-> "jump30.mp4", output_file |-> "out.mp4",
              slate_time |-> FromInt(3), leadin_time |-> FromInt(2),
              working_time |-> FromInt(10), freeze_time |-> FromInt(3),
              jump_time |-> FromInt(15), exit_frame |-> 100]),
     CliArgs([input_file |-> "jump30.mp4", output_file |-> "out.mp4",
              slate_time |-> FromInt(3), leadin_time |-> FromInt(5),
              working_time |-> FromInt(10), freeze_time |-> FromInt(3),
              jump_time |-> FromInt(15), exit_frame |-> 10]),
     CliArgs([input_file |-> "jump30.mp4", exit_frame |-> 100]),
     CliArgs([output_file |-> "out.mp4"])}

CliJobs == TimelineJobs \cup JumpJobs \cup EdgeJobs \cup ProfileJobs \cup ExampleJobs

HeaderNames == {"input_file", "output_file", "exit_frame", "comment"}

Headers == UNION {[1..n -> HeaderNames] : n \in 1..MaxCols}

CellVals(name) ==
    CASE name = "input_file"   -> {<<>>, <<"jump30.mp4">>}
      [] name = "output_file"  -> {<<>>, <<"out.mp4">>}
      [] name = "exit_frame"   -> {<<>>, <<1>>}
      [] name = "leadin_time"  -> {<<>>, <<Rat(1, 2)>>}
      [] name = "encoder_prof" -> {<<>>, <<"null">>}
      [] OTHER                 -> {<<"x">>}

RECURSIVE RowsOf(_)
RowsOf(header) ==
    IF header = <<>> THEN {<<>>}
    ELSE {<<c>> \o r : c \in CellVals(Head(header)), r \in RowsOf(Tail(header))}

RowSeqs(header, maxrows) == UNION {[1..n -> RowsOf(header)] : n \in 0..maxrows}

BatchHeader == <<"input_file", "output_file", "leadin_time", "encoder_prof">>

BatchRows ==
    {<<f>> \o r : f \in {<<"jump30.mp4">>, <<"audio.mp3">>},
                  r \in RowsOf(Tail(BatchHeader))}

BatchRowSeqs == UNION {[1..n -> BatchRows] : n \in 0..MaxBatchRows}

ConvRates ==
    {<<1>>, <<2>>, <<25>>, <<30>>, <<3, 2>>, <<30000, 1001>>, <<30, 1, 1>>}

ConvSeconds == {Rat(k, d) : k \in (-MaxConvNum)..MaxConvNum, d \in 1..MaxConvDen}

(***************************************************************************)
(* The program: __main__ runs getCmdLineList, then processJumps.           *)
(***************************************************************************)
NoSheet == [header |-> <<>>, rows |-> <<>>]

ConvIdle == [stage |-> "idle"]

Init ==
    /\ pc = "start"
    /\ jumpsToProcess = <<>>
    /\ cleaned_jumps = <<>>
    /\ job_idx = 0
    /\ runs = <<>>
    /\ error = "none"
    /\ ws = NoSheet
    /\ conv = ConvIdle

(* getCmdLineList without --excel_sheet: the command line is the one jump. *)
GetCmdLineListCli ==
    /\ pc = "start"
    /\ \E cli_args \in CliJobs :
          jumpsToProcess' = <<cli_args>>
    /\ pc' = "clean"
    /\ UNCHANGED <<cleaned_jumps, job_idx, runs, error, ws, conv>>

(* getCmdLineList with --excel_sheet: the jumps are the worksheet's rows.  *)
GetCmdLineListXlsx ==
    /\ pc = "start"
    /\ \E rows \in BatchRowSeqs :
          LET sheet == [header |-> BatchHeader, rows |-> rows]
              res == jumpsFromXlsx(sheet, known_parser_args)
          IN  /\ ws' = sheet
              /\ IF res.status = "ok"
                 THEN /\ jumpsToProcess' = res.jumpArgs
                      /\ pc' = IF res.jumpArgs = <<>> THEN "done" ELSE "clean"
                      /\ error' = error
                 ELSE /\ jumpsToProcess' = jumpsToProcess
                      /\ pc' = "raised"
                      /\ error' = res.status
    /\ UNCHANGED <<cleaned_jumps, job_idx, runs, conv>>

(* One turn of the loop of getCmdLineList: drop the None values and        *)
(* construct the StamperArgs of the next raw jump.                         *)
cleanedArgsOf(rawjump) ==
    [k \in {k2 \in DOMAIN rawjump : rawjump[k2] # <<>>} |-> rawjump[k][1]]

CleanJump_return_inside_loop ==
    /\ pc = "clean"
    /\ Len(cleaned_jumps) < Len(jumpsToProcess)
    /\ LET rawjump == jumpsToProcess[Len(cleaned_jumps) + 1]
           cleanedArgs == cleanedArgsOf(rawjump)
           res == IF DOMAIN cleanedArgs \subseteq ArgNames
                  THEN StamperArgs(cleanedArgs)
                  ELSE [status |-> "TypeError"]
       IN  IF res.status = "ok"
           THEN /\ cleaned_jumps' = Append(cleaned_jumps, res.obj)
                /\ pc' = "process"
                /\ error' = error
           ELSE /\ cleaned_jumps' = cleaned_jumps
                /\ pc' = IF res.status = "SystemExit" THEN "exit" ELSE "raised"
                /\ error' = res.status
    /\ UNCHANGED <<jumpsToProcess, job_idx, runs, ws, conv>>


CleanJump ==
    /\ pc = "clean"
    /\ Len(cleaned_jumps) < Len(jumpsToProcess)
    /\ LET rawjump == jumpsToProcess[Len(cleaned_jumps) + 1]
           cleanedArgs == cleanedArgsOf(rawjump)
           res == IF DOMAIN cleanedArgs \subseteq ArgNames
                  THEN StamperArgs(cleanedArgs)
                  ELSE [status |-> "TypeError"]
       IN  IF res.status = "ok"
           THEN /\ cleaned_jumps' = Append(cleaned_jumps, res.obj)
                /\ pc' = IF Len(cleaned_jumps) + 1 = Len(jumpsToProcess)
                         THEN "process" ELSE "clean"
                /\ error' = error
           ELSE /\ cleaned_jumps' = cleaned_jumps
                /\ pc' = IF res.status = "SystemExit" THEN "exit" ELSE "raised"
                /\ error' = res.status
    /\ UNCHANGED <<jumpsToProcess, job_idx, runs, ws, conv>>

(* One turn of the loop of processJumps for a job with the stamp flag:     *)
(* makeStamped raises.                                                     *)
ProcessJumpStamp ==
    /\ pc = "process"
    /\ job_idx < Len(cleaned_jumps)
    /\ cleaned_jumps[job_idx + 1].stamp
    /\ pc' = "raised"
    /\ error' = makeStamped(cleaned_jumps[job_idx + 1]).status
    /\ UNCHANGED <<jumpsToProcess, cleaned_jumps, job_idx, runs, ws, conv>>

ProcessJumpRun_profile_of_first_job ==
    /\ pc = "process"
    /\ job_idx < Len(cleaned_jumps)
    /\ ~ cleaned_jumps[job_idx + 1].stamp
    /\ LET cli_args == cleaned_jumps[job_idx + 1]
           filter_args == StamperProfiles(cleaned_jumps[1])
       IN  /\ runs' = Append(runs,
                         joinAndPostFilters(cli_args, segmentsOf(cli_args)) \o
                         <<[op |-> "output", filename |-> outputFileOf(cli_args),
                            kwargs |-> filter_args.output]>>)
           /\ cleaned_jumps' =
                 [cleaned_jumps EXCEPT ![job_idx + 1].output_file =
                                            outputFileOf(cli_args)]
    /\ \E ran \in BOOLEAN :
          IF ran
          THEN /\ job_idx' = job_idx + 1
               /\ pc' = IF job_idx + 1 = Len(cleaned_jumps) THEN "done" ELSE "process"
               /\ error' = error
          ELSE /\ job_idx' = job_idx
               /\ pc' = "raised"
               /\ error' = "ffmpeg.Error"
    /\ UNCHANGED <<jumpsToProcess, ws, conv>>

(* One turn of the loop of processJumps for any other job: build the       *)
(* graph, redirect the null profile's output, run the engine.  A failed    *)
(* run raises ffmpeg.Error.                                                *)
ProcessJumpRun ==
    /\ pc = "process"
    /\ job_idx < Len(cleaned_jumps)
    /\ ~ cleaned_jumps[job_idx + 1].stamp
    /\ LET cli_args == cleaned_jumps[job_idx + 1]
       IN  /\ runs' = Append(runs, pipelineOf(cli_args))
           /\ cleaned_jumps' =
                 [cleaned_jumps EXCEPT ![job_idx + 1].output_file =
                                            outputFileOf(cli_args)]
    /\ \E ran \in BOOLEAN :
          IF ran
          THEN /\ job_idx' = job_idx + 1
               /\ pc' = IF job_idx + 1 = Len(cleaned_jumps) THEN "done" ELSE "process"
               /\ error' = error
          ELSE /\ job_idx' = job_idx
               /\ pc' = "raised"
               /\ error' = "ffmpeg.Error"
    /\ UNCHANGED <<jumpsToProcess, ws, conv>>

(* load_workbook failed: the except clause only prints, and the next line  *)
(* reads wb, which was never bound.                                        *)
LoadWorkbookFails ==
    /\ pc = "start"
    /\ pc' = "raised"
    /\ error' = "UnboundLocalError"
    /\ UNCHANGED <<jumpsToProcess, cleaned_jumps, job_idx, runs, ws, conv>>

Next ==
    \/ GetCmdLineListCli
    \/ GetCmdLineListXlsx
    \/ LoadWorkbookFails
    \/ CleanJump
    \/ ProcessJumpStamp
    \/ ProcessJumpRun

Spec == Init /\ [][Next]_vars

(***************************************************************************)
(* jumpsFromXlsx on its own, over every worksheet within the bounds.       *)
(***************************************************************************)
JumpsFromXlsx ==
    /\ pc = "start"
    /\ \E header \in Headers :
          \E rows \in RowSeqs(header, MaxRows) :
             LET sheet == [header |-> header, rows |-> rows]
                 res == jumpsFromXlsx(sheet, known_parser_args)
             IN  /\ ws' = sheet
                 /\ IF res.status = "ok"
                    THEN /\ jumpsToProcess' = res.jumpArgs
                         /\ pc' = "parsed"
                         /\ error' = error
                    ELSE /\ jumpsToProcess' = jumpsToProcess
                         /\ pc' = "raised"
                         /\ error' = res.status
    /\ UNCHANGED <<cleaned_jumps, job_idx, runs, conv>>

NextXlsx ==
    \/ JumpsFromXlsx
    \/ LoadWorkbookFails

SpecXlsx == Init /\ [][NextXlsx]_vars

(***************************************************************************)
(* The conversions on their own: getFrameRate on a probed rate, numFrames  *)
(* on a duration, numSecs on the frame count.                              *)
(***************************************************************************)
InitConv ==
    /\ pc = "start"
    /\ jumpsToProcess = <<>>
    /\ cleaned_jumps = <<>>
    /\ job_idx = 0
    /\ runs = <<>>
    /\ error = "none"
    /\ ws = NoSheet
    /\ conv \in {[stage |-> "input", rate |-> r, seconds |-> sec,
                  framerate |-> FromInt(0), frames |-> 0, back |-> FromInt(0)] :
                    r \in ConvRates, sec \in ConvSeconds}

ConvGetFrameRate ==
    /\ conv.stage = "input"
    /\ conv' = [conv EXCEPT !.stage = "rate",
                            !.framerate = getFrameRate(conv.rate)]
    /\ UNCHANGED <<pc, jumpsToProcess, cleaned_jumps, job_idx, runs, error, ws>>

ConvNumFrames ==
    /\ conv.stage = "rate"
    /\ conv' = [conv EXCEPT !.stage = "frames",
                            !.frames = numFrames(conv.framerate, conv.seconds)]
    /\ UNCHANGED <<pc, jumpsToProcess, cleaned_jumps, job_idx, runs, error, ws>>

ConvNumSecs ==
    /\ conv.stage = "frames"
    /\ conv' = [conv EXCEPT !.stage = "back",
                            !.back = numSecs(conv.framerate, conv.frames)]
    /\ UNCHANGED <<pc, jumpsToProcess, cleaned_jumps, job_idx, runs, error, ws>>

NextConv ==
    \/ ConvGetFrameRate
    \/ ConvNumFrames
    \/ ConvNumSecs

SpecConv == InitConv /\ [][NextConv]_vars

(***************************************************************************)
(* Properties.                                                             *)
(***************************************************************************)
JobIndices == 1..Len(cleaned_jumps)

RunIndices == 1..Len(runs)

(* The lead-in marker as __post_init__ computes it, before sanity.         *)
ComputedLeadin(a) == a.exit_frame - numFrames(a.framerate, a.leadin_time)

(* x = n / r, stated without dividing.                                     *)
IsQuotient(x, n, r) == x[1] * r[1] = n * r[2] * x[2]

IsBoundaryExample(a) ==
    /\ a.framerate = FromInt(30)
    /\ a.exit_frame = 10
    /\ a.leadin_time = FromInt(5)

(* C1: a constructed job with exit_frame >= 0 whose computed lead-in       *)
(* marker is negative has lead-in marker 0 and lead-in seconds             *)
(* exit_frame / framerate (0 and 10/30 for exit_frame 10, lead-in 5 s at   *)
(* 30 fps); a job whose computed marker is not negative keeps the computed *)
(* marker and the lead-in seconds it was given.                            *)
C1_BoundaryCorrection ==
    \A i \in JobIndices :
        LET a == cleaned_jumps[i]
        IN  a.exit_frame >= 0 =>
              /\ ComputedLeadin(a) < 0 =>
                    /\ a.framenum.leadin = 0
                    /\ IsQuotient(a.secs.leadin, a.exit_frame, a.framerate)
              /\ ComputedLeadin(a) >= 0 =>
                    /\ a.framenum.leadin = ComputedLeadin(a)
                    /\ a.secs.leadin = a.leadin_time
              /\ IsBoundaryExample(a) =>
                    /\ a.framenum.leadin = 0
                    /\ a.secs.leadin = <<1, 3>>

C1_Witness ==
    \E i \in JobIndices :
        /\ IsBoundaryExample(cleaned_jumps[i])
        /\ ComputedLeadin(cleaned_jumps[i]) < 0
        /\ cleaned_jumps[i].secs.leadin # cleaned_jumps[i].leadin_time

IsMarkerExample(a) ==
    /\ a.framerate = FromInt(30)
    /\ a.slate_time = FromInt(3)
    /\ a.leadin_time = FromInt(2)
    /\ a.working_time = FromInt(10)
    /\ a.freeze_time = FromInt(3)
    /\ a.jump_time = FromInt(15)
    /\ a.exit_frame = 100

(* C2: in every constructed job the exit and slate markers are the given   *)
(* frames, the freeze marker is exit_frame + numFrames(working_time), the  *)
(* end marker is exit_frame + numFrames(jump_time) and, unless clamped,    *)
(* the lead-in marker is exit_frame - numFrames(leadin_time); the job at   *)
(* 30 fps with slate 3, lead-in 2, working 10, freeze 3, jump 15 and exit  *)
(* frame 100 has lead-in 40, freeze 400, end 550 and 90 slate and freeze   *)
(* frames.                                                                 *)
C2_FrameMarkers ==
    \A i \in JobIndices :
        LET a == cleaned_jumps[i]
        IN  /\ a.framenum.exit = a.exit_frame
            /\ a.framenum.slate = a.slate_frame
            /\ a.framenum.freeze = a.exit_frame + numFrames(a.framerate, a.working_time)
            /\ a.framenum.end = a.exit_frame + numFrames(a.framerate, a.jump_time)
            /\ ComputedLeadin(a) >= 0 => a.framenum.leadin = ComputedLeadin(a)
            /\ IsMarkerExample(a) =>
                  /\ a.framenum.leadin = 40
                  /\ a.framenum.freeze = 400
                  /\ a.framenum.end = 550
                  /\ a.frames.slate = 90
                  /\ a.frames.freeze = 90

C2_Witness ==
    \E i \in JobIndices :
        /\ IsMarkerExample(cleaned_jumps[i])
        /\ cleaned_jumps[i].framenum.freeze = 400

(* The main segment of a run: the last input of its concat stage.          *)
MainSegment(run) == run[1].inputs[Len(run[1].inputs)]

LoopStages(segment) == {k \in 1..Len(segment) : segment[k].op = "loop"}

(* C3: in every graph handed to the engine the main segment has one loop   *)
(* stage, which starts at framenum.freeze - framenum.leadin + 1 (with the  *)
(* lead-in marker as corrected), loops frames.freeze times and holds one   *)
(* frame.                                                                  *)
C3_FreezeLoopRebased ==
    \A i \in RunIndices :
        LET a == cleaned_jumps[i]
            main == MainSegment(runs[i])
        IN  /\ Cardinality(LoopStages(main)) = 1
            /\ \A k \in LoopStages(main) :
                  /\ main[k].kwargs.start = a.framenum.freeze - a.framenum.leadin + 1
                  /\ main[k].kwargs.loop = a.frames.freeze
                  /\ main[k].kwargs.size = 1

(* A run whose job was clamped and whose re-based start differs from the   *)
(* raw freeze marker.                                                      *)
C3_Witness ==
    \E i \in RunIndices :
        LET a == cleaned_jumps[i]
            main == MainSegment(runs[i])
        IN  /\ pc = "done"
            /\ ComputedLeadin(a) < 0
            /\ a.framenum.leadin = 0
            /\ \E k \in LoopStages(main) :
                  /\ main[k].kwargs.start = a.framenum.freeze + 1
                  /\ main[k].kwargs.start # a.framenum.freeze

ConvPositiveRate == conv.framerate[1] > 0

(* seconds * framerate of the conversion under way.                        *)
ConvProduct == RMul(conv.seconds, conv.framerate)

(* Twice the distance of the integer f from the rational p, in units of    *)
(* 1 / p[2].                                                               *)
TwiceDistance(f, p) == 2 * Abs(f * p[2] - p[1])

IsTie(p) == p[2] = 2

(* C4 as stated: numFrames returns seconds * framerate rounded to the      *)
(* nearest integer, a product halfway between two integers going to the    *)
(* one farther from zero.                                                  *)
C4_HalfAwayFromZero ==
    (conv.stage \in {"frames", "back"} /\ ConvPositiveRate) =>
        /\ TwiceDistance(conv.frames, ConvProduct) <= ConvProduct[2]
        /\ IsTie(ConvProduct) => Abs(conv.frames) * 2 = Abs(ConvProduct[1]) + 1

(* C4, amended: numFrames returns seconds * framerate rounded to the       *)
(* nearest integer, a product halfway between two integers going to the    *)
(* even one, for every seconds and every framerate > 0.                    *)
C4_HalfToEven ==
    (conv.stage \in {"frames", "back"} /\ ConvPositiveRate) =>
        /\ TwiceDistance(conv.frames, ConvProduct) <= ConvProduct[2]
        /\ IsTie(ConvProduct) => conv.frames % 2 = 0

(* A tie that the two rules settle differently: 1/2 s at 25 fps is 12.5    *)
(* frames and numFrames gave 12.                                           *)
C4_Witness ==
    /\ conv.stage = "frames"
    /\ conv.framerate = FromInt(25)
    /\ conv.seconds = <<1, 2>>
    /\ IsTie(ConvProduct)
    /\ conv.frames = 12

(* C5: for every framerate r > 0 and seconds s >= 0, numSecs(numFrames(s)) *)
(* differs from s by at most 1/r.                                          *)
C5_RoundTrip ==
    (conv.stage = "back" /\ ConvPositiveRate /\ conv.seconds[1] >= 0) =>
        RLeq(RAbs(RSub(conv.back, conv.seconds)),
             <<conv.framerate[2], conv.framerate[1]>>)

(* A round trip that did not return the seconds it started from.           *)
C5_Witness ==
    /\ conv.stage = "back"
    /\ ConvPositiveRate
    /\ conv.seconds[1] > 0
    /\ conv.back # conv.seconds
    /\ conv.rate = <<30000, 1001>>

(* processJumps has finished its turn for job i: it ran the job or raised  *)
(* on it.                                                                  *)
Handled(i) ==
    /\ i \in JobIndices
    /\ Len(cleaned_jumps) = Len(jumpsToProcess)
    /\ \/ job_idx >= i
       \/ pc = "raised" /\ job_idx + 1 = i

UnknownProf(a) == a.encoder_prof \notin KnownEncoderProfs \cup {"default"}

DefaultTwin(a) == [a EXCEPT !.encoder_prof = "default"]

InputBundles(run) == {run[1].inputs[s][1].kwargs : s \in 1..Len(run[1].inputs)}

(* C6: a job whose encoder profile is not a known name is handed to the    *)
(* engine with the output, scale, fps and input bundles that the same job  *)
(* with profile 'default' resolves to, and building its graph raises       *)
(* nothing.                                                                *)
C6_UnknownProfileIsDefault ==
    \A i \in JobIndices :
        LET a == cleaned_jumps[i]
            ref == StamperProfiles(DefaultTwin(a))
        IN  UnknownProf(a) =>
              /\ (Handled(i) /\ ~ a.stamp) => i \in RunIndices
              /\ i \in RunIndices =>
                    /\ runs[i][Len(runs[i])].kwargs = ref.output
                    /\ runs[i][2].kwargs = ref.scale
                    /\ runs[i][3].kwargs = ref.fps
                    /\ InputBundles(runs[i]) = {ref.input}

C6_Witness ==
    \E i \in RunIndices :
        /\ pc = "done"
        /\ cleaned_jumps[i].encoder_prof = "bogus"
        /\ runs[i][Len(runs[i])].kwargs = defaultOutput

(* The timer overlay: the first drawtext stage of the main segment.        *)
TimerStage(main) ==
    main[CHOOSE k \in 1..Len(main) :
            /\ main[k].op = "drawtext"
            /\ \A k2 \in 1..(k - 1) : main[k2].op # "drawtext"]

(* C7: a job with working time 0 gets its graph built, with the empty      *)
(* string as the text of the timer overlay; a job with another working     *)
(* time gets the elapsed-time expression, which is not empty.              *)
C7_TimerTextEmptyAtZero ==
    \A i \in JobIndices :
        LET a == cleaned_jumps[i]
        IN  /\ (Handled(i) /\ ~ a.stamp /\ a.working_time = FromInt(0)) =>
                  i \in RunIndices
            /\ i \in RunIndices =>
                  LET text == TimerStage(MainSegment(runs[i])).kwargs.text
                  IN  /\ a.working_time = FromInt(0) => text = <<>>
                      /\ a.working_time # FromInt(0) =>
                            /\ Len(text) = 7
                            /\ text[1] = "%{eif:(trunc(t-"
                            /\ text[2] = a.secs.leadin

C7_Witness ==
    \E i \in RunIndices :
        /\ pc = "done"
        /\ cleaned_jumps[i].working_time = FromInt(0)
        /\ TimerStage(MainSegment(runs[i])).kwargs.text = <<>>

(* The cell of data row r under the last column headed k.                  *)
HasColumn(k) == \E c \in 1..Len(ws.header) : ws.header[c] = k

CellOf(r, k) ==
    ws.rows[r][CHOOSE c \in 1..Len(ws.header) :
                  /\ ws.header[c] = k
                  /\ \A c2 \in (c + 1)..Len(ws.header) : ws.header[c2] # k]

RowHas(r, k) == HasColumn(k) /\ CellOf(r, k) # <<>>

CompleteRows == {r \in 1..Len(ws.rows) : RowHas(r, "input_file") /\ RowHas(r, "output_file")}

NthCompleteRow(j) ==
    CHOOSE r \in CompleteRows : Cardinality({r2 \in CompleteRows : r2 <= r}) = j

RecognisedHeaders == {ws.header[c] : c \in 1..Len(ws.header)} \cap known_parser_args

(* The job list is the complete rows, in row order, each with exactly the  *)
(* recognised header fields of its row.                                    *)
JobListIsCompleteRows ==
    /\ pc = "parsed"
    /\ Len(jumpsToProcess) = Cardinality(CompleteRows)
    /\ \A j \in 1..Len(jumpsToProcess) :
          /\ DOMAIN jumpsToProcess[j] = RecognisedHeaders
          /\ \A k \in RecognisedHeaders :
                jumpsToProcess[j][k] = CellOf(NthCompleteRow(j), k)

(* C8 as stated: whatever the worksheet, jumpsFromXlsx does not fail, it   *)
(* leaves out every data row that lacks input_file or output_file, and it  *)
(* returns every other row, in row order, with exactly the recognised      *)
(* header fields of that row.                                              *)
C8_RowsSkippedNeverFailing ==
    (pc # "start" /\ error # "UnboundLocalError") => JobListIsCompleteRows

(* C8, amended: when the header row has both an input_file and an          *)
(* output_file column, jumpsFromXlsx does not fail, leaves out every data  *)
(* row whose input_file or output_file cell is empty and returns every     *)
(* other row, in row order, with exactly the recognised header fields of   *)
(* that row.                                                               *)
C8_RowsSkippedGivenColumns ==
    (pc # "start" /\ error # "UnboundLocalError"
        /\ HasColumn("input_file") /\ HasColumn("output_file")) =>
        JobListIsCompleteRows

(* Two data rows under a header with both columns and an unknown one: the  *)
(* first lacks its output_file and is left out, the second is returned.    *)
C8_Witness ==
    /\ pc = "parsed"
    /\ HasColumn("input_file") /\ HasColumn("output_file") /\ HasColumn("comment")
    /\ Len(ws.rows) = 2
    /\ RowHas(1, "input_file") /\ ~ RowHas(1, "output_file")
    /\ CompleteRows = {2}
    /\ Len(jumpsToProcess) = 1

StampShape(run) ==
    /\ Len(run) = 4
    /\ run[1].op = "concat"
    /\ Len(run[1].inputs) = 1
    /\ Len(run[1].inputs[1]) = 2
    /\ run[1].inputs[1][1].op = "input"
    /\ run[1].inputs[1][2].op = "drawtext"
    /\ run[2].op = "scale"
    /\ run[3].op = "fps"
    /\ run[4].op = "output"

(* C9: for a job with the stamp flag, processJumps builds and runs the     *)
(* graph input, frame-counter drawtext, scale, fps, output, with no slate  *)
(* or main segment, whatever the slate and duration fields.                *)
C9_StampPipeline ==
    \A i \in JobIndices :
        (Handled(i) /\ cleaned_jumps[i].stamp) =>
            /\ i \in RunIndices
            /\ StampShape(runs[i])

IsMainSegment(segment) ==
    /\ Len(segment) = 9
    /\ segment[2].op = "trim"
    /\ segment[9].op = "fade"

IsSlateSegment(segment, a) ==
    /\ Len(segment) >= 5
    /\ segment[2].op = "crop"
    /\ segment[3].op = "trim"
    /\ segment[3].kwargs.start_frame = a.framenum.slate

(* C10: for a job without the stamp flag the graph has a slate segment if  *)
(* and only if the slate duration is greater than 0, the slate comes       *)
(* before the main segment, and the joined stream goes through scale, fps  *)
(* and the output stage in that order.                                     *)
C10_SlateIffPositive ==
    \A i \in RunIndices :
        LET a == cleaned_jumps[i]
            segs == runs[i][1].inputs
        IN  /\ Len(segs) \in {1, 2}
            /\ Len(segs) = 2 <=> RLess(FromInt(0), a.secs.slate)
            /\ IsMainSegment(segs[Len(segs)])
            /\ Len(segs) = 2 => IsSlateSegment(segs[1], a)
            /\ <<runs[i][1].op, runs[i][2].op, runs[i][3].op, runs[i][4].op>>
                  = <<"concat", "scale", "fps", "output">>

SegmentOps(segment) == [k \in 1..Len(segment) |-> segment[k].op]

CentreCrop == [width |-> "0.8*in_w", height |-> "ih", x |-> "0.1*in_w", y |-> 0]

(* C11: in every graph handed to the engine the main segment is the nine   *)
(* stages input, trim from the lead-in marker to the end marker, setpts,   *)
(* crop to the centre 80% of the width, timer drawtext, annotation         *)
(* drawtext, loop, setpts, fade out, in that order, whatever the job.      *)
C11_MainSegmentSequence ==
    \A i \in RunIndices :
        LET a == cleaned_jumps[i]
            main == MainSegment(runs[i])
        IN  /\ SegmentOps(main) =
                  <<"input", "trim", "setpts", "crop", "drawtext", "drawtext",
                    "loop", "setpts", "fade">>
            /\ main[1].filename = a.input_file
            /\ main[2].kwargs = [start_frame |-> a.framenum.leadin,
                                 end_frame |-> a.framenum.end]
            /\ main[4].kwargs = CentreCrop
            /\ main[5].kwargs.x = 0 /\ main[5].kwargs.y = 0
            /\ main[6].kwargs.text = Text(a.annotation)
            /\ main[9].kwargs.type = "out"

(* A finished run of a job with no freeze and no working time, whose main  *)
(* segment still has its loop stage.                                       *)
C11_Witness ==
    \E i \in RunIndices :
        /\ pc = "done"
        /\ cleaned_jumps[i].frames.freeze = 0
        /\ cleaned_jumps[i].working_time = FromInt(0)
        /\ MainSegment(runs[i])[7].op = "loop"
        /\ MainSegment(runs[i])[7].kwargs.loop = 0

SlateRuns == {i \in RunIndices : Len(runs[i][1].inputs) = 2}

SlateSegment(run) == run[1].inputs[1]

FadeStages(segment) == {k \in 1..Len(segment) : segment[k].op = "fade"}

(* C12: the slate segment of every graph trims to the one frame            *)
(* [slate_frame, slate_frame + 1) and loops it frames.slate times; it ends *)
(* in a fade-in/fade-out pair if and only if the slate lasts at least 2    *)
(* seconds, the fade-in starting at 0 and the fade-out at the slate's      *)
(* seconds minus 0.5, each lasting 0.5 s.                                  *)
C12_SlateSegment ==
    \A i \in SlateRuns :
        LET a == cleaned_jumps[i]
            slate == SlateSegment(runs[i])
        IN  /\ SegmentOps(SubSeq(slate, 1, 5)) = <<"input", "crop", "trim", "loop", "setpts">>
            /\ slate[3].kwargs = [start_frame |-> a.slate_frame,
                                  end_frame   |-> a.slate_frame + 1]
            /\ slate[4].kwargs = [loop |-> a.frames.slate, size |-> 1, start |-> 1]
            /\ a.frames.slate = numFrames(a.framerate, a.slate_time)
            /\ IF RLeq(FromInt(2), a.slate_time)
               THEN /\ Len(slate) = 7
                    /\ slate[6] = Stage("fade", [type |-> "in", start_time |-> FromInt(0),
                                                 duration |-> Rat(1, 2)])
                    /\ slate[7] = Stage("fade", [type |-> "out",
                                                 start_time |-> RSub(a.slate_time, Rat(1, 2)),
                                                 duration |-> Rat(1, 2)])
               ELSE /\ Len(slate) = 5
                    /\ FadeStages(slate) = {}

C12_Witness ==
    \E i \in SlateRuns :
        /\ pc = "done"
        /\ cleaned_jumps[i].slate_time = FromInt(2)
        /\ Len(SlateSegment(runs[i])) = 7
        /\ SlateSegment(runs[i])[7].kwargs.start_time = Rat(3, 2)

(* The length of the main segment in frames: the trimmed frames and the    *)
(* repetitions of the frozen frame.                                        *)
MainSegmentFrames(a) == a.framenum.end - a.framenum.leadin + a.frames.freeze

(* C13: the fade that ends the main segment has duration 2 and starts at   *)
(* secs.leadin + secs.jump + secs.freeze - 2 with secs.leadin as corrected *)
(* at the boundary (exit_frame / framerate when the lead-in was clamped);  *)
(* the fade's end is within one and a half frames of the segment's end,    *)
(* the distance being the rounding of the three durations to frames.       *)
C13_MainFadeOut ==
    \A i \in RunIndices :
        LET a == cleaned_jumps[i]
            fade == MainSegment(runs[i])[9].kwargs
            sum == RAdd(RAdd(a.secs.leadin, a.secs.jump), a.secs.freeze)
        IN  /\ fade.type = "out"
            /\ fade.duration = 2
            /\ fade.start_time = RSub(sum, FromInt(2))
            /\ ComputedLeadin(a) < 0 => IsQuotient(a.secs.leadin, a.exit_frame, a.framerate)
            /\ ComputedLeadin(a) >= 0 => a.secs.leadin = a.leadin_time
            /\ RLeq(RAbs(RSub(RMul(RAdd(fade.start_time, FromInt(fade.duration)),
                                   a.framerate),
                              FromInt(MainSegmentFrames(a)))),
                    Rat(3, 2))

C13_Witness ==
    \E i \in RunIndices :
        /\ pc = "done"
        /\ ComputedLeadin(cleaned_jumps[i]) < 0
        /\ cleaned_jumps[i].exit_frame > 0
        /\ cleaned_jumps[i].secs.leadin # cleaned_jumps[i].leadin_time
        /\ RMul(RAdd(MainSegment(runs[i])[9].kwargs.start_time, FromInt(2)),
                cleaned_jumps[i].framerate) =
              FromInt(MainSegmentFrames(cleaned_jumps[i]))

InputDurations == {"slate_time", "leadin_time", "working_time", "freeze_time", "jump_time"}

(* C14: no job is constructed from a negative input duration (slate,       *)
(* lead-in, working, freeze, jump) or with a frame rate <= 0: such a job   *)
(* fails at construction and has no timeline and no graph.                 *)
C14_InvalidInputsRejected ==
    \A i \in JobIndices :
        LET a == cleaned_jumps[i]
        IN  /\ \A k \in InputDurations : RLeq(FromInt(0), a[k])
            /\ RLess(FromInt(0), a.framerate)

(* C15: the frame rate of every constructed job was parsed from a probed   *)
(* rate of one part (N gives N) or of two parts (N/D gives N/D); a rate of *)
(* any other shape constructs no job.                                      *)
C15_FrameRateParsedOrRejected ==
    \A i \in JobIndices :
        LET a == cleaned_jumps[i]
            rate == a.vid_metadata.r_frame_rate
        IN  /\ Len(rate) \in {1, 2}
            /\ Len(rate) = 1 => a.framerate = FromInt(rate[1])
            /\ Len(rate) = 2 => IsQuotient(a.framerate, rate[1], FromInt(rate[2]))

OutputStage(run) == run[Len(run)]

GivenOutputFile(i) == jumpsToProcess[i].output_file[1]

(* C16: the output stage of a 'null' job carries only the null-format keys *)
(* (format 'null' and y, none of the default's codec and bitrate keys) and *)
(* writes to /dev/null, which also becomes the job's output file; a        *)
(* 'quick' or 'x265_high' job keeps every key of the default bundle, with  *)
(* its own keys added or overriding, and writes to the file it was given.  *)
C16_NullReplacesDefault ==
    \A i \in RunIndices :
        LET a == cleaned_jumps[i]
            out == OutputStage(runs[i])
        IN  /\ a.encoder_prof = "null" =>
                  /\ DOMAIN out.kwargs = {"format", "y"}
                  /\ DOMAIN out.kwargs \cap {"c:v", "b:v"} = {}
                  /\ out.kwargs["format"] = "null"
                  /\ out.filename = "/dev/null"
                  /\ a.output_file = "/dev/null"
            /\ a.encoder_prof \in {"quick", "x265_high"} =>
                  /\ DOMAIN defaultOutput \subseteq DOMAIN out.kwargs
                  /\ DOMAIN out.kwargs = DOMAIN defaultOutput \cup
                        (IF a.encoder_prof = "quick" THEN {"crf", "preset"} ELSE {"preset"})
                  /\ out.kwargs["format"] = defaultOutput["format"]
                  /\ out.kwargs["b:v"] = defaultOutput["b:v"]
                  /\ out.kwargs["c:v"] =
                        (IF a.encoder_prof = "quick" THEN defaultOutput["c:v"] ELSE "libx265")
                  /\ out.filename = GivenOutputFile(i)
                  /\ a.output_file = GivenOutputFile(i)

C16_Witness ==
    \E i \in RunIndices :
        /\ pc = "done"
        /\ cleaned_jumps[i].encoder_prof = "null"
        /\ GivenOutputFile(i) # "/dev/null"
        /\ OutputStage(runs[i]).filename = "/dev/null"
        /\ OutputStage(runs[i]).kwargs = ("format" :> "null") @@ ("y" :> "None")

(* The job constructed from the i-th raw argument set alone.               *)
FreshJob(i) == StamperArgs(cleanedArgsOf(jumpsToProcess[i])).obj

(* C17: jobs run one after another in list order, the i-th graph run is    *)
(* the graph of the i-th job and is determined by that job's own arguments *)
(* and the metadata of its own file, and every job in the list is as it    *)
(* was constructed whatever other jobs were processed (only its own        *)
(* output file is rewritten, by its own null profile).                     *)
C17_JobsIndependent ==
    /\ Len(runs) <= Len(cleaned_jumps)
    /\ job_idx <= Len(runs)
    /\ Len(runs) <= job_idx + 1
    /\ \A i \in RunIndices :
          /\ runs[i] = pipelineOf(FreshJob(i))
          /\ cleaned_jumps[i] =
                [FreshJob(i) EXCEPT !.output_file = outputFileOf(FreshJob(i))]
    /\ \A i \in JobIndices \ RunIndices : cleaned_jumps[i] = FreshJob(i)

C17_Witness ==
    /\ pc = "done"
    /\ Len(runs) = 2
    /\ OutputStage(runs[1]).kwargs # OutputStage(runs[2]).kwargs
    /\ cleaned_jumps[1].output_file # cleaned_jumps[2].output_file

RawInputFile(rawjump) ==
    IF "input_file" \in DOMAIN rawjump /\ rawjump.input_file # <<>>
    THEN rawjump.input_file[1]
    ELSE ""

ProbeFails(rawjump) == getVideoMetadata(RawInputFile(rawjump)).status # "ok"

(* C18: when the probe of any job of the list fails (probe error or no     *)
(* video stream), the engine has been run for no job, the ones before the  *)
(* failing job included, and the processing loop is never entered.         *)
C18_FailFastOnMetadata ==
    \A i \in 1..Len(jumpsToProcess) :
        ProbeFails(jumpsToProcess[i]) =>
            /\ runs = <<>>
            /\ job_idx = 0
            /\ pc \notin {"process", "done"}
            /\ Len(cleaned_jumps) < i

C18_Witness ==
    /\ Len(jumpsToProcess) = 2
    /\ ~ ProbeFails(jumpsToProcess[1])
    /\ ProbeFails(jumpsToProcess[2])
    /\ Len(cleaned_jumps) = 1
    /\ pc = "exit"
    /\ error = "SystemExit"
    /\ runs = <<>>

(* C19: in every constructed job, one whose lead-in was corrected at the   *)
(* boundary included, each of the six frame counts is numFrames of the     *)
(* seconds of the same name, and secs.total is the sum of the jump,        *)
(* freeze, lead-in and slate seconds.                                      *)
C19_SecondsFramesConsistent ==
    \A i \in JobIndices :
        LET a == cleaned_jumps[i]
        IN  /\ \A k \in DurationNames :
                  a.frames[k] = numFrames(a.framerate, a.secs[k])
            /\ a.secs.total =
                  RAdd(RAdd(RAdd(a.secs.jump, a.secs.freeze), a.secs.leadin),
                       a.secs.slate)

NonNegativeInputs(a) ==
    /\ a.exit_frame >= 0
    /\ \A k \in InputDurations : RLeq(FromInt(0), a[k])

(* C20: in every constructed job with exit_frame >= 0 and non-negative     *)
(* durations the markers are ordered 0 <= leadin <= exit <= freeze <= end, *)
(* and the freeze loop starts at freeze - leadin + 1, right after a frame  *)
(* within the end - leadin frames of the trimmed main segment.             *)
C20_MarkerOrdering ==
    \A i \in JobIndices :
        LET a == cleaned_jumps[i]
            m == a.framenum
        IN  NonNegativeInputs(a) =>
              /\ 0 <= m.leadin
              /\ m.leadin <= m.exit
              /\ m.exit <= m.freeze
              /\ m.freeze <= m.end
              /\ freeze_loop(a).start = m.freeze - m.leadin + 1
              /\ freeze_loop(a).start >= 1
              /\ freeze_loop(a).start - 1 <= m.end - m.leadin

TimedRuns == {i \in RunIndices : cleaned_jumps[i].working_time # FromInt(0)}

(* The offsets the timer expression subtracts from the running time t.     *)
TimerOffsets(main) ==
    LET text == TimerStage(main).kwargs.text
    IN  {text[k] : k \in {2, 4, 6}}

(* The exit frame's position in the trimmed main segment, in frames.       *)
ExitInSegment(a) == a.framenum.exit - a.framenum.leadin

(* The offset's distance from the exit frame, in frames.                   *)
OffsetMiss(a) == RAbs(RSub(RMul(a.secs.leadin, a.framerate), FromInt(ExitInSegment(a))))

WholeFrames(a) == RMul(a.leadin_time, a.framerate)[2] = 1

(* C21 as stated: with a non-zero working time the timer's offset is       *)
(* secs.leadin as corrected, and it equals                                 *)
(* (framenum.exit - framenum.leadin) / framerate, with and without the     *)
(* correction.  Stated for the jobs with non-negative inputs and a         *)
(* positive frame rate only.                                               *)
C21_TimerZeroAtExit ==
    \A i \in TimedRuns :
        LET a == cleaned_jumps[i]
        IN  (NonNegativeInputs(a) /\ RLess(FromInt(0), a.framerate)) =>
              /\ TimerOffsets(MainSegment(runs[i])) = {a.secs.leadin}
              /\ IsQuotient(a.secs.leadin, ExitInSegment(a), a.framerate)

(* C21 as amended: the offset is secs.leadin as corrected; it is the time  *)
(* of the exit frame in the trimmed segment exactly when the lead-in was   *)
(* clamped or the requested lead-in is a whole number of frames, and       *)
(* otherwise within half a frame of it, the requested seconds being kept   *)
(* while the marker is rounded to a frame.                                 *)
C21_TimerWithinHalfFrame ==
    \A i \in TimedRuns :
        LET a == cleaned_jumps[i]
        IN  /\ TimerOffsets(MainSegment(runs[i])) = {a.secs.leadin}
            /\ ComputedLeadin(a) >= 0 => a.secs.leadin = a.leadin_time
            /\ (ComputedLeadin(a) < 0 \/ WholeFrames(a)) =>
                  IsQuotient(a.secs.leadin, ExitInSegment(a), a.framerate)
            /\ RLeq(OffsetMiss(a), Rat(1, 2))

C21_Witness ==
    \E i \in TimedRuns :
        /\ pc = "done"
        /\ ComputedLeadin(cleaned_jumps[i]) >= 0
        /\ RLess(FromInt(0), cleaned_jumps[i].leadin_time)
        /\ ~ WholeFrames(cleaned_jumps[i])
        /\ OffsetMiss(cleaned_jumps[i]) = Rat(1, 2)
        /\ TimerOffsets(MainSegment(runs[i])) = {cleaned_jumps[i].leadin_time}

====
